---- MODULE Spec2Model ----
(***************************************************************************)
(* Pattern search and conditional rewriting over an e-graph                *)
(* (egg, src/pattern.rs).                                                  *)
(*                                                                         *)
(* The e-graph itself (egraph.rs: add, union, rebuild, total_size,         *)
(* classes, indexing) is a collaborator of pattern.rs; it is modelled here *)
(* from the interface the design document gives for it.  Everything else   *)
(* is a translation of pattern.rs.                                         *)
(***************************************************************************)
EXTENDS Integers, Sequences, FiniteSets

\* ----------------------------------------------------------------------
\* Bounds and constants
\* ----------------------------------------------------------------------

\* largest number of e-nodes the caller interns before searching
MaxNodes == 3

\* std::usize::MAX, the limit `run` passes (the largest integer TLC holds)
UsizeMax == 2147483647

\* Option::None for an Id (ids are 1, 2, ...)
None == 0

\* ----------------------------------------------------------------------
\* Small helpers over sequences
\* ----------------------------------------------------------------------

Min2(a, b) == IF a < b THEN a ELSE b

MinOf(S) == CHOOSE m \in S : \A o \in S : m <= o

RECURSIVE Concat(_)
\* concatenation of a sequence of sequences (Iterator::flat_map / collect)
Concat(ss) ==
    IF ss = <<>> THEN <<>> ELSE Head(ss) \o Concat(Tail(ss))

\* ----------------------------------------------------------------------
\* E-nodes and the e-graph (collaborator, modelled from its interface)
\* ----------------------------------------------------------------------

\* Expr<L, Id>: an operator and an ordered sequence of child ids
ENode(op, children) == [op |-> op, children |-> children]

\* EGraph::default(): no e-node; uf[i] is the leader of id i
EmptyEGraph == [nodes |-> <<>>, uf |-> <<>>]

\* the ids handed out so far
Ids(e) == 1 .. Len(e.nodes)

\* EGraph::find: the canonical id (leader) of an id
find(e, id) == e.uf[id]

\* an e-node with its children replaced by their leaders
canonicalize(e, n) ==
    ENode(n.op, [k \in 1 .. Len(n.children) |-> find(e, n.children[k])])

\* EGraph::total_size: the number of e-nodes interned so far
total_size(e) == Len(e.nodes)

\* EGraph::add: hash-cons the canonicalized e-node; AddResult {id, was_there}
egraph_add(e, n) ==
    LET cn   == canonicalize(e, n)
        hits == {i \in Ids(e) : e.nodes[i] = cn}
        new  == Len(e.nodes) + 1
    IN  IF hits # {}
        THEN [egraph |-> e, id |-> find(e, MinOf(hits)), was_there |-> TRUE]
        ELSE [egraph |-> [nodes |-> Append(e.nodes, cn),
                          uf    |-> Append(e.uf, new)],
              id |-> new, was_there |-> FALSE]

\* EGraph::union: merge the classes of a and b; which of the two leaders
\* represents the merged class is the e-graph's choice (toFirst)
egraph_union(e, a, b, toFirst) ==
    LET ra   == find(e, a)
        rb   == find(e, b)
        to   == IF toFirst THEN ra ELSE rb
        from == IF toFirst THEN rb ELSE ra
    IN  IF ra = rb
        THEN [egraph |-> e, leader |-> ra]
        ELSE [egraph |-> [nodes |-> e.nodes,
                          uf    |-> [i \in 1 .. Len(e.uf) |->
                                       IF e.uf[i] = from THEN to ELSE e.uf[i]]],
              leader |-> to]

\* pairs of ids in different classes whose canonical e-nodes coincide
CongruentPairs(e) ==
    {p \in Ids(e) \X Ids(e) :
        /\ p[1] < p[2]
        /\ find(e, p[1]) # find(e, p[2])
        /\ canonicalize(e, e.nodes[p[1]]) = canonicalize(e, e.nodes[p[2]])}

RECURSIVE egraph_rebuild(_)
\* EGraph::rebuild: restore congruence (merge classes holding the same
\* canonical e-node, to a fixed point) and store every e-node canonically
egraph_rebuild(e) ==
    LET ps == CongruentPairs(e)
    IN  IF ps = {}
        THEN [nodes |-> [i \in 1 .. Len(e.nodes) |-> canonicalize(e, e.nodes[i])],
              uf    |-> e.uf]
        ELSE LET p == CHOOSE q \in ps :
                        \A o \in ps : q[1] < o[1] \/ (q[1] = o[1] /\ q[2] <= o[2])
                 lo == Min2(find(e, p[1]), find(e, p[2]))
                 hi == IF lo = find(e, p[1]) THEN find(e, p[2]) ELSE find(e, p[1])
             IN  egraph_rebuild(egraph_union(e, lo, hi, TRUE).egraph)

\* the e-graph is canonical and congruence-closed, as rebuild leaves it
IsRebuilt(e) == egraph_rebuild(e) = e

RECURSIVE UpTo(_, _, _)
\* the ids lo..hi satisfying keep, in ascending order
UpTo(lo, hi, keep) ==
    IF lo > hi THEN <<>>
    ELSE (IF lo \in keep THEN <<lo>> ELSE <<>>) \o UpTo(lo + 1, hi, keep)

\* EGraph::classes(): the ids of the e-classes (their leaders)
classes(e) == UpTo(1, Len(e.nodes), {i \in Ids(e) : find(e, i) = i})

\* egraph[eclass]: the distinct e-nodes of the class of eclass
class_nodes(e, eclass) ==
    LET members == {i \in Ids(e) : find(e, i) = find(e, eclass)}
        firsts  == {i \in members :
                      \A k \in members : e.nodes[k] = e.nodes[i] => i <= k}
        order   == UpTo(1, Len(e.nodes), firsts)
    IN  [k \in 1 .. Len(order) |-> e.nodes[order[k]]]

\* ----------------------------------------------------------------------
\* Patterns (enum Pattern), conditions and rewrites
\* ----------------------------------------------------------------------

\* Pattern::Wildcard(w)
Wildcard(w) == [kind |-> "Wildcard", op |-> w, children |-> <<>>]

\* Pattern::Expr(op, children)
Expr(op, children) == [kind |-> "Expr", op |-> op, children |-> children]

\* struct Condition {lhs, rhs}
Condition(lhs, rhs) == [lhs |-> lhs, rhs |-> rhs]

\* struct Rewrite {name, lhs, rhs, conditions}
Rewrite(name, lhs, rhs, conditions) ==
    [name |-> name, lhs |-> lhs, rhs |-> rhs, conditions |-> conditions]

\* ----------------------------------------------------------------------
\* WildMap: an ordered sequence of (wildcard, id) pairs
\* ----------------------------------------------------------------------

\* WildMap::default()
WildMap_default == <<>>

\* WildMap::get: the id of the first entry for w, or None
WildMap_get(m, w) ==
    LET hits == {k \in 1 .. Len(m) : m[k].w = w}
    IN  IF hits = {} THEN None ELSE m[MinOf(hits)].id

\* WildMap::insert without the lookup: the entry is always pushed
WildMap_insert_push(m, w, id) ==
    [map |-> Append(m, [w |-> w, id |-> id]), old |-> None]

\* WildMap::insert: first wins; the prior id is reported
WildMap_insert(m, w, id) ==
    LET old == WildMap_get(m, w)
    IN  IF old # None
        THEN [map |-> m, old |-> old]
        ELSE [map |-> Append(m, [w |-> w, id |-> id]), old |-> None]

\* ----------------------------------------------------------------------
\* Pattern utilities
\* ----------------------------------------------------------------------

RECURSIVE insert_wildcards(_, _)
\* Pattern::insert_wildcards: add the wildcards of pat to the set
insert_wildcards(pat, set) ==
    IF pat.kind = "Wildcard"
    THEN set \cup {pat.op}
    ELSE IF pat.children = <<>> THEN set
    ELSE insert_wildcards(Expr(pat.op, Tail(pat.children)),
                          insert_wildcards(Head(pat.children), set))

RECURSIVE Pattern_is_bound(_, _)
\* Pattern::is_bound: every wildcard of pat is in the set
Pattern_is_bound(pat, set) ==
    IF pat.kind = "Wildcard"
    THEN pat.op \in set
    ELSE \A k \in 1 .. Len(pat.children) : Pattern_is_bound(pat.children[k], set)

\* Rewrite::is_bound looking at the rhs only, the conditions forgotten
Rewrite_is_bound_rhs_only(r) ==
    Pattern_is_bound(r.rhs, insert_wildcards(r.lhs, {}))

\* Rewrite::is_bound
Rewrite_is_bound(r) ==
    LET bound == insert_wildcards(r.lhs, {})
    IN  /\ Pattern_is_bound(r.rhs, bound)
        /\ \A k \in 1 .. Len(r.conditions) :
              /\ Pattern_is_bound(r.conditions[k].lhs, bound)
              /\ Pattern_is_bound(r.conditions[k].rhs, bound)

\* ----------------------------------------------------------------------
\* Matcher: Pattern::search / search_eclass / search_pat
\* ----------------------------------------------------------------------

\* the filter `e.op == pat_expr.op` on the e-nodes of the class
OpMatches(pat_expr, e) == e.op = pat_expr.op

\* ArityDiffers with the arity check forgotten
ArityDiffers_unchecked(pat_expr, e) == FALSE

\* `pat_expr.children.len() != e.children.len()`: the e-node is skipped
ArityDiffers(pat_expr, e) == Len(pat_expr.children) # Len(e.children)

RECURSIVE multi_cartesian_product(_)
\* itertools multi_cartesian_product: every tuple with one element of each
\* sequence, the last position varying fastest
multi_cartesian_product(args) ==
    IF args = <<>> THEN << <<>> >>
    ELSE LET rest == multi_cartesian_product(Tail(args))
             hd   == Head(args)
         IN  Concat([a \in 1 .. Len(hd) |->
                       [b \in 1 .. Len(rest) |-> <<hd[a]>> \o rest[b]]])

RECURSIVE combine_entries_strict(_, _)
\* combine_entries dropping the tuple on any wildcard already bound, the
\* comparison `old_id != *id` forgotten
combine_entries_strict(combined, entries) ==
    IF entries = <<>> THEN [keep |-> TRUE, map |-> combined]
    ELSE LET ins == WildMap_insert(combined, Head(entries).w, Head(entries).id)
         IN  IF ins.old # None
             THEN [keep |-> FALSE, map |-> combined]
             ELSE combine_entries_strict(ins.map, Tail(entries))

RECURSIVE combine_entries(_, _)
\* the loops over `&ms[1..]` and `&m.vec`: insert every entry into combined;
\* an entry whose wildcard is already bound to another id drops the tuple
combine_entries(combined, entries) ==
    IF entries = <<>> THEN [keep |-> TRUE, map |-> combined]
    ELSE LET ins == WildMap_insert(combined, Head(entries).w, Head(entries).id)
         IN  IF ins.old # None /\ ins.old # Head(entries).id
             THEN [keep |-> FALSE, map |-> combined]
             ELSE combine_entries(ins.map, Tail(entries))

\* one tuple ms of the product: `combined = ms[0].clone()` and the merge
combine(ms) == combine_entries(Head(ms), Concat(Tail(ms)))

\* the 'outer loop: the combined maps of the tuples that are kept, in order
combine_all(tuples) ==
    LET cs == [t \in 1 .. Len(tuples) |-> combine(tuples[t])]
    IN  Concat([t \in 1 .. Len(tuples) |->
                  IF cs[t].keep THEN <<cs[t].map>> ELSE <<>>])

RECURSIVE search_pat(_, _, _)
\* Pattern::search_pat: the WildMaps under which pat is found in eclass
search_pat(pat, e, eclass) ==
    IF pat.kind = "Wildcard"
    THEN << WildMap_insert(WildMap_default, pat.op, eclass).map >>
    ELSE LET ns == class_nodes(e, eclass)
         IN  IF pat.children = <<>>
             THEN IF \E k \in 1 .. Len(ns) :
                        ns[k].children = <<>> /\ pat.op = ns[k].op
                  THEN << WildMap_default >>
                  ELSE <<>>
             ELSE Concat([k \in 1 .. Len(ns) |->
                    IF ~OpMatches(pat, ns[k]) \/ ArityDiffers(pat, ns[k])
                    THEN <<>>
                    ELSE LET zipped == Min2(Len(pat.children), Len(ns[k].children))
                             arg_mappings ==
                                [c \in 1 .. zipped |->
                                   search_pat(pat.children[c], e, ns[k].children[c])]
                         IN  combine_all(multi_cartesian_product(arg_mappings))])

\* struct PatternMatches {eclass, mappings}
PatternMatches(eclass, mappings) == [eclass |-> eclass, mappings |-> mappings]

\* Pattern::search_eclass: Some(PatternMatches) as a one-element sequence,
\* None as the empty sequence
search_eclass(pat, e, eclass) ==
    LET mappings == search_pat(pat, e, eclass)
    IN  IF mappings # <<>> THEN << PatternMatches(eclass, mappings) >> ELSE <<>>

\* Pattern::search: filter_map over the classes of the e-graph
search(pat, e) ==
    LET cs == classes(e)
    IN  Concat([k \in 1 .. Len(cs) |-> search_eclass(pat, e, cs[k])])

\* ----------------------------------------------------------------------
\* Substitution: Pattern::subst_and_find and PatternMatches::apply_rec
\* ----------------------------------------------------------------------

RECURSIVE subst_and_find(_, _, _)
RECURSIVE subst_children(_, _, _)

\* the children substituted so far (first) joined with the remaining ones
subst_join(first, rest) ==
    [egraph |-> rest.egraph, ids |-> <<first.id>> \o rest.ids, ok |-> rest.ok]

\* the remaining children, substituted in the e-graph the first one left
subst_rest(pats, first, mapping) ==
    IF ~first.ok THEN [egraph |-> first.egraph, ids |-> <<>>, ok |-> FALSE]
    ELSE subst_join(first, subst_children(pats, first.egraph, mapping))

\* map_children of subst_and_find, left to right; ok is FALSE when an
\* unwrap of a missing wildcard panicked
subst_children(pats, e, mapping) ==
    IF pats = <<>> THEN [egraph |-> e, ids |-> <<>>, ok |-> TRUE]
    ELSE subst_rest(Tail(pats), subst_and_find(Head(pats), e, mapping), mapping)

\* `mapping.get(w).unwrap()`
subst_wildcard(e, got) == [egraph |-> e, id |-> got, ok |-> got # None]

\* `result.id` of the AddResult
subst_result(result) == [egraph |-> result.egraph, id |-> result.id, ok |-> TRUE]

\* `egraph.add(expr)`, once the children ch are substituted
subst_add(op, ch) ==
    IF ~ch.ok THEN [egraph |-> ch.egraph, id |-> None, ok |-> FALSE]
    ELSE subst_result(egraph_add(ch.egraph, ENode(op, ch.ids)))

\* Pattern::subst_and_find: intern pat under the mapping, return its id
subst_and_find(pat, e, mapping) ==
    IF pat.kind = "Wildcard"
    THEN subst_wildcard(e, WildMap_get(mapping, pat.op))
    ELSE subst_add(pat.op, subst_children(pat.children, e, mapping))

RECURSIVE apply_rec(_, _, _)
RECURSIVE apply_children(_, _, _)

\* `everything_was_there &= add.was_there` and the child id, joined with
\* the remaining children
apply_join(first, rest) ==
    [egraph    |-> rest.egraph,
     ids       |-> <<first.id>> \o rest.ids,
     was_there |-> first.was_there /\ rest.was_there,
     ok        |-> rest.ok]

\* the remaining children, applied in the e-graph the first one left
apply_rest(pats, first, mapping) ==
    IF ~first.ok
    THEN [egraph |-> first.egraph, ids |-> <<>>, was_there |-> FALSE, ok |-> FALSE]
    ELSE apply_join(first, apply_children(pats, first.egraph, mapping))

\* map_children of apply_rec; was_there is `everything_was_there`
apply_children(pats, e, mapping) ==
    IF pats = <<>> THEN [egraph |-> e, ids |-> <<>>, was_there |-> TRUE, ok |-> TRUE]
    ELSE apply_rest(Tail(pats), apply_rec(Head(pats), e, mapping), mapping)

\* AddResult {was_there: true, id: mapping.get(&w).unwrap()}
apply_wildcard(e, got) ==
    [egraph |-> e, id |-> got, was_there |-> TRUE, ok |-> got # None]

\* `op_add.was_there &= everything_was_there`
apply_result(op_add, everything_was_there) ==
    [egraph    |-> op_add.egraph,
     id        |-> op_add.id,
     was_there |-> op_add.was_there /\ everything_was_there,
     ok        |-> TRUE]

\* `egraph.add(n)`, once the children ch are applied
apply_add(op, ch) ==
    IF ~ch.ok
    THEN [egraph |-> ch.egraph, id |-> None, was_there |-> FALSE, ok |-> FALSE]
    ELSE apply_result(egraph_add(ch.egraph, ENode(op, ch.ids)), ch.was_there)

\* PatternMatches::apply_rec: AddResult {id, was_there} of pat under mapping
apply_rec(pat, e, mapping) ==
    IF pat.kind = "Wildcard"
    THEN apply_wildcard(e, WildMap_get(mapping, pat.op))
    ELSE apply_add(pat.op, apply_children(pat.children, e, mapping))

\* ----------------------------------------------------------------------
\* Conditions
\* ----------------------------------------------------------------------

\* `lhs_id == rhs_id`
check_compare(l, r) ==
    IF ~r.ok THEN [egraph |-> r.egraph, result |-> FALSE, ok |-> FALSE]
    ELSE [egraph |-> r.egraph, result |-> l.id = r.id, ok |-> TRUE]

\* the rhs of the condition, substituted after the lhs
check_rhs(cond, l, mapping) ==
    IF ~l.ok THEN [egraph |-> l.egraph, result |-> FALSE, ok |-> FALSE]
    ELSE check_compare(l, subst_and_find(cond.rhs, l.egraph, mapping))

\* Condition::check: substitute both sides, compare the ids
Condition_check(cond, e, mapping) ==
    check_rhs(cond, subst_and_find(cond.lhs, e, mapping), mapping)

RECURSIVE conditions_all(_, _, _)

\* the conditions after one that gave c: `all` stops at the first false
conditions_rest(conditions, c, mapping) ==
    IF ~c.ok \/ ~c.result THEN c
    ELSE conditions_all(conditions, c.egraph, mapping)

\* `conditions.iter().all(|c| c.check(egraph, mapping))`
conditions_all(conditions, e, mapping) ==
    IF conditions = <<>> THEN [egraph |-> e, result |-> TRUE, ok |-> TRUE]
    ELSE conditions_rest(Tail(conditions),
                         Condition_check(Head(conditions), e, mapping), mapping)

\* ----------------------------------------------------------------------
\* One binding of PatternMatches::apply_conditionally_with_limit
\* ----------------------------------------------------------------------

\* the size check off by one: the limit may be passed by one e-node
over_limit_late(before_size, limit) == before_size > limit + 1

\* the size check at the head of each iteration: `before_size > size_limit`
over_limit(before_size, limit) == before_size > limit

\* the outcome of an iteration: the e-graph it leaves, the leader pushed to
\* `applications` (if any), and the panic that ended it ("none", "unwrap"
\* for a missing wildcard, "assert" for assert_eq!(before_size, after_size))
Outcome(e, pushed, pnc) == [egraph |-> e, pushed |-> pushed, panic |-> pnc]

\* after the union: push the leader, or assert that the size is unchanged
after_union(un, was_there, before_size) ==
    IF ~was_there
    THEN Outcome(un.egraph, <<un.leader>>, "none")
    ELSE Outcome(un.egraph, <<>>,
                 IF before_size = total_size(un.egraph) THEN "none" ELSE "assert")

\* substitute_rhs with the union made only when the rhs was new
substitute_rhs_union_if_new(pattern_root, eclass, before_size, toFirst) ==
    IF ~pattern_root.ok THEN Outcome(pattern_root.egraph, <<>>, "unwrap")
    ELSE IF ~pattern_root.was_there
    THEN after_union(egraph_union(pattern_root.egraph, eclass, pattern_root.id,
                                  toFirst), FALSE, before_size)
    ELSE Outcome(pattern_root.egraph, <<>>,
                 IF before_size = total_size(pattern_root.egraph)
                 THEN "none" ELSE "assert")

\* `egraph.union(self.eclass, pattern_root.id)` once apply_rec has given
\* pattern_root
substitute_rhs(pattern_root, eclass, before_size, toFirst) ==
    IF ~pattern_root.ok THEN Outcome(pattern_root.egraph, <<>>, "unwrap")
    ELSE after_union(egraph_union(pattern_root.egraph, eclass, pattern_root.id,
                                  toFirst),
                     pattern_root.was_there, before_size)

\* when_conditions with the result of the conditions ignored
when_conditions_ignored(conds, eclass, mapping, pattern, before_size, toFirst) ==
    IF ~conds.ok THEN Outcome(conds.egraph, <<>>, "unwrap")
    ELSE substitute_rhs(apply_rec(pattern, conds.egraph, mapping),
                        eclass, before_size, toFirst)

\* `if conditions.iter().all(..) { .. }` once the conditions have given conds
when_conditions(conds, eclass, mapping, pattern, before_size, toFirst) ==
    IF ~conds.ok THEN Outcome(conds.egraph, <<>>, "unwrap")
    ELSE IF ~conds.result THEN Outcome(conds.egraph, <<>>, "none")
    ELSE substitute_rhs(apply_rec(pattern, conds.egraph, mapping),
                        eclass, before_size, toFirst)

\* the body of the loop once the size check has passed: check the
\* conditions, substitute the rhs, union, push or assert
apply_mapping(e, eclass, mapping, pattern, conditions, before_size, toFirst) ==
    when_conditions(conditions_all(conditions, e, mapping),
                    eclass, mapping, pattern, before_size, toFirst)

\* ----------------------------------------------------------------------
\* The rewrites and e-nodes the callers of this model use
\* ----------------------------------------------------------------------

\* f(?a) => ?a
Rw_elim ==
    Rewrite("elim", Expr("f", <<Wildcard("a")>>), Wildcard("a"), <<>>)

\* f(?a, ?b) => f(?b, ?a), the commute_plus of tests::simple_match
Rw_commute ==
    Rewrite("commute",
            Expr("f", <<Wildcard("a"), Wildcard("b")>>),
            Expr("f", <<Wildcard("b"), Wildcard("a")>>), <<>>)

\* f(?a, ?a) => g(?a), a non-linear left-hand side
Rw_nonlinear ==
    Rewrite("nonlinear",
            Expr("f", <<Wildcard("a"), Wildcard("a")>>),
            Expr("g", <<Wildcard("a")>>), <<>>)

\* f(f(?a), ?b) => g(?b, x), a nested left-hand side
Rw_nested ==
    Rewrite("nested",
            Expr("f", <<Expr("f", <<Wildcard("a")>>), Wildcard("b")>>),
            Expr("g", <<Wildcard("b"), Expr("x", <<>>)>>), <<>>)

\* ?a => g(?a), a left-hand side that is a lone wildcard
Rw_wrap ==
    Rewrite("wrap", Wildcard("a"), Expr("g", <<Wildcard("a")>>), <<>>)

\* f(?a) => g(?a, h(?a)) if f(?a, ?a) == x, shaped as the mul_to_shift of
\* tests::conditional_rewrite
Rw_cond ==
    Rewrite("cond",
            Expr("f", <<Wildcard("a")>>),
            Expr("g", <<Wildcard("a"), Expr("h", <<Wildcard("a")>>)>>),
            << Condition(Expr("f", <<Wildcard("a"), Wildcard("a")>>),
                         Expr("x", <<>>)) >>)

\* f(?a, ?b) => ?a if h(?a) == h(?b)
Rw_cond_same ==
    Rewrite("cond_same",
            Expr("f", <<Wildcard("a"), Wildcard("b")>>),
            Wildcard("a"),
            << Condition(Expr("h", <<Wildcard("a")>>),
                         Expr("h", <<Wildcard("b")>>)) >>)

\* x => g(?b): a nullary lhs, and an rhs with a wildcard the lhs lacks
Rw_unbound_rhs ==
    Rewrite("unbound_rhs",
            Expr("x", <<>>), Expr("g", <<Wildcard("b")>>), <<>>)

\* f(?a) => ?a if ?a == ?b: a condition has a wildcard the lhs lacks
Rw_unbound_cond ==
    Rewrite("unbound_cond",
            Expr("f", <<Wildcard("a")>>), Wildcard("a"),
            << Condition(Wildcard("a"), Wildcard("b")) >>)

\* no rewrite made yet
NoRewrite == Rewrite("", Expr("", <<>>), Expr("", <<>>), <<>>)

Rewrites ==
    {Rw_elim, Rw_commute, Rw_nonlinear, Rw_nested, Rw_wrap, Rw_cond,
     Rw_cond_same, Rw_unbound_rhs, Rw_unbound_cond}

\* the e-nodes a caller may intern into e: the leaf x, and f applied to
\* one or two existing classes
BuildNodes(e) ==
    LET ls == {i \in Ids(e) : find(e, i) = i}
    IN  {ENode("x", <<>>)}
        \cup {ENode("f", <<a>>) : a \in ls}
        \cup {ENode("f", <<p[1], p[2]>>) : p \in ls \X ls}

\* the size limits a caller may pass for an e-graph of n e-nodes: just
\* below its size, its size, and the usize::MAX of `run`
Limits(n) == {l \in {n - 1, n} : l >= 0} \cup {UsizeMax}

\* ----------------------------------------------------------------------
\* State
\* ----------------------------------------------------------------------

VARIABLES
    phase,        \* "build", "ready", "searched", "apply", "done", "panic"
    rw,           \* the Rewrite, once the caller has made it
    bound,        \* what rw.is_bound() returned
    egraph,       \* the EGraph
    matches,      \* RewriteMatches.matches, the result of search
    size_limit,   \* the size_limit argument of apply_with_limit
    mi,           \* position of the flat_map: index into matches
    bi,           \* position of the inner loop: index into mappings
    applications, \* the ids produced so far
    panic,        \* "none", or the panic that ended the call
    egraph0,      \* the e-graph as it was when search ran
    limit_seen    \* the size check has observed total_size > size_limit

vars == <<phase, rw, bound, egraph, matches, size_limit, mi, bi,
          applications, panic, egraph0, limit_seen>>

Init ==
    /\ phase = "build"
    /\ rw = NoRewrite
    /\ bound = FALSE
    /\ egraph = EmptyEGraph
    /\ matches = <<>>
    /\ size_limit = UsizeMax
    /\ mi = 1
    /\ bi = 1
    /\ applications = <<>>
    /\ panic = "none"
    /\ egraph0 = EmptyEGraph
    /\ limit_seen = FALSE

\* ----------------------------------------------------------------------
\* Actions
\* ----------------------------------------------------------------------

\* the caller makes the rewrite r and asks r.is_bound()
IsBound(r) ==
    /\ phase = "build"
    /\ rw' = r
    /\ bound' = Rewrite_is_bound(r)
    /\ phase' = "ready"
    /\ UNCHANGED <<egraph, matches, size_limit, mi, bi, applications,
                   panic, egraph0, limit_seen>>

\* egraph.add(n) by the caller
Add(n) ==
    /\ phase = "build"
    /\ total_size(egraph) < MaxNodes
    /\ egraph' = egraph_add(egraph, n).egraph
    /\ UNCHANGED <<phase, rw, bound, matches, size_limit, mi, bi,
                   applications, panic, egraph0, limit_seen>>

\* egraph.union(a, b) by the caller; either leader may come to represent
\* the merged class (both orders of a and b are drawn)
Union(a, b) ==
    /\ phase = "build"
    /\ egraph' = egraph_union(egraph, a, b, TRUE).egraph
    /\ UNCHANGED <<phase, rw, bound, matches, size_limit, mi, bi,
                   applications, panic, egraph0, limit_seen>>

\* egraph.rebuild() by the caller
Rebuild ==
    /\ phase = "build"
    /\ egraph' = egraph_rebuild(egraph)
    /\ UNCHANGED <<phase, rw, bound, matches, size_limit, mi, bi,
                   applications, panic, egraph0, limit_seen>>

\* Rewrite::search
Search ==
    /\ phase = "ready"
    /\ matches' = search(rw.lhs, egraph)
    /\ egraph0' = egraph
    /\ phase' = "searched"
    /\ UNCHANGED <<rw, bound, egraph, size_limit, mi, bi, applications,
                   panic, limit_seen>>

\* RewriteMatches::apply_with_limit is entered with a limit (run passes
\* usize::MAX); the flat_map starts at the first PatternMatches
ApplyWithLimit(limit) ==
    /\ phase = "searched"
    /\ size_limit' = limit
    /\ mi' = 1
    /\ bi' = 1
    /\ phase' = IF matches = <<>> THEN "done" ELSE "apply"
    /\ UNCHANGED <<rw, bound, egraph, matches, applications, panic, egraph0,
                   limit_seen>>

\* the position after the inner loop's `break`: the flat_map moves on to the
\* next PatternMatches, or the call returns
AfterBreak ==
    /\ mi' = mi + 1
    /\ bi' = 1
    /\ phase' = IF mi + 1 > Len(matches) THEN "done" ELSE "apply"

\* the position after an iteration that ran to its end
AfterMapping ==
    IF bi < Len(matches[mi].mappings)
    THEN /\ mi' = mi
         /\ bi' = bi + 1
         /\ phase' = "apply"
    ELSE AfterBreak

\* an iteration whose size check fails: `break`
LimitBreak ==
    /\ phase = "apply"
    /\ over_limit(total_size(egraph), size_limit)
    /\ limit_seen' = TRUE
    /\ AfterBreak
    /\ UNCHANGED <<rw, bound, egraph, matches, size_limit, applications,
                   panic, egraph0>>

\* the iteration has given the outcome r: a panic ends the call, otherwise
\* the loop goes on
Handled(r) ==
    /\ egraph' = r.egraph
    /\ applications' = applications \o r.pushed
    /\ panic' = r.panic
    /\ IF r.panic # "none"
       THEN /\ phase' = "panic"
            /\ UNCHANGED <<mi, bi>>
       ELSE AfterMapping
    /\ UNCHANGED <<rw, bound, matches, size_limit, egraph0, limit_seen>>

\* the rest of an iteration: the binding is handled, the position moves
HandleMapping(toFirst) ==
    Handled(apply_mapping(egraph, matches[mi].eclass, matches[mi].mappings[bi],
                          rw.rhs, rw.conditions, total_size(egraph), toFirst))

\* an iteration that goes on whatever the size check said
ApplyMapping_unchecked(toFirst) ==
    /\ phase = "apply"
    /\ HandleMapping(toFirst)

\* an iteration whose size check passes
ApplyMapping(toFirst) ==
    /\ phase = "apply"
    /\ ~over_limit(total_size(egraph), size_limit)
    /\ HandleMapping(toFirst)

Next ==
    \/ \E r \in Rewrites : IsBound(r)
    \/ \E n \in BuildNodes(egraph) : Add(n)
    \/ \E a \in Ids(egraph), b \in Ids(egraph) : Union(a, b)
    \/ Rebuild
    \/ Search
    \/ \E limit \in Limits(total_size(egraph)) : ApplyWithLimit(limit)
    \/ LimitBreak
    \/ \E toFirst \in BOOLEAN : ApplyMapping(toFirst)

Spec == Init /\ [][Next]_vars

\* ----------------------------------------------------------------------
\* Vocabulary of the properties
\* ----------------------------------------------------------------------

RECURSIVE WildcardsOf(_)
\* the wildcard names occurring in a pattern
WildcardsOf(pat) ==
    IF pat.kind = "Wildcard" THEN {pat.op}
    ELSE UNION {WildcardsOf(pat.children[k]) : k \in 1 .. Len(pat.children)}

\* every wildcard of the rhs and of the conditions occurs in the lhs
WellBound(r) ==
    /\ WildcardsOf(r.rhs) \subseteq WildcardsOf(r.lhs)
    /\ \A k \in 1 .. Len(r.conditions) :
          /\ WildcardsOf(r.conditions[k].lhs) \subseteq WildcardsOf(r.lhs)
          /\ WildcardsOf(r.conditions[k].rhs) \subseteq WildcardsOf(r.lhs)

\* the leaders of e
Leaders(e) == {i \in Ids(e) : find(e, i) = i}

\* the e-nodes stored in the class of id
NodesOf(e, id) == {e.nodes[i] : i \in {k \in Ids(e) : find(e, k) = find(e, id)}}

RECURSIVE TreeMatchesId(_, _, _, _)
\* some e-node tree rooted in the class of id matches pat, every wildcard w
\* standing at the e-class id sigma[w]
TreeMatchesId(pat, e, id, sigma) ==
    IF pat.kind = "Wildcard" THEN sigma[pat.op] = id
    ELSE \E n \in NodesOf(e, id) :
            /\ n.op = pat.op
            /\ Len(n.children) = Len(pat.children)
            /\ \A c \in 1 .. Len(pat.children) :
                  TreeMatchesId(pat.children[c], e, n.children[c], sigma)

RECURSIVE TreeMatchesClass(_, _, _, _)
\* some e-node tree rooted in the class of id matches pat, every wildcard w
\* standing at an id of the e-class of sigma[w]
TreeMatchesClass(pat, e, id, sigma) ==
    IF pat.kind = "Wildcard" THEN find(e, sigma[pat.op]) = find(e, id)
    ELSE \E n \in NodesOf(e, id) :
            /\ n.op = pat.op
            /\ Len(n.children) = Len(pat.children)
            /\ \A c \in 1 .. Len(pat.children) :
                  TreeMatchesClass(pat.children[c], e, n.children[c], sigma)

\* the bindings of the wildcards of pat to ids of e
Bindings(pat, e) == [WildcardsOf(pat) -> Ids(e)]

\* the wildcard names a WildMap has entries for
NamesOf(m) == {m[k].w : k \in 1 .. Len(m)}

\* the (match, binding) positions of the search result
Found ==
    UNION {{<<k, b>> : b \in 1 .. Len(matches[k].mappings)} :
              k \in 1 .. Len(matches)}

\* a, b are in one e-class of e exactly when they are in one e-class of d
SameEqualities(e, d, ids) ==
    \A a \in ids, b \in ids :
       (find(e, a) = find(e, b)) <=> (find(d, a) = find(d, b))

\* the binding the inner loop stands at
CurMapping == matches[mi].mappings[bi]

\* what checking the conditions on the current binding gives
CurConds == conditions_all(rw.conditions, egraph, CurMapping)

\* what substituting the rhs after the conditions gives
CurRoot == apply_rec(rw.rhs, CurConds.egraph, CurMapping)

\* the inner loop stands at a binding whose size check passes
AtMapping == phase = "apply" /\ ~over_limit(total_size(egraph), size_limit)

\* ----------------------------------------------------------------------
\* Properties
\* ----------------------------------------------------------------------

\* C1: on a rebuilt e-graph, substituting the lhs under any mapping that
\* search returned for class c gives the id c and interns no new e-node.
Thm_C1_SearchSound ==
    (phase = "searched" /\ IsRebuilt(egraph)) =>
        \A p \in Found :
            LET r == subst_and_find(rw.lhs, egraph, matches[p[1]].mappings[p[2]])
            IN  /\ r.ok
                /\ r.id = matches[p[1]].eclass
                /\ r.egraph = egraph

\* C1 witness: a rebuilt e-graph with a merged class in which the lhs was
\* found under two mappings
Wit_C1_SearchSound ==
    /\ phase = "searched"
    /\ IsRebuilt(egraph)
    /\ \E i \in Ids(egraph) : find(egraph, i) # i
    /\ \E k \in 1 .. Len(matches) : Len(matches[k].mappings) >= 2

\* the result of search holds, for class c, a mapping that agrees with the
\* binding sigma up to e-class
FoundUpToClass(c, sigma) ==
    \E p \in Found :
        /\ matches[p[1]].eclass = c
        /\ LET m == matches[p[1]].mappings[p[2]]
           IN  /\ NamesOf(m) = DOMAIN sigma
               /\ \A w \in DOMAIN sigma :
                     find(egraph, WildMap_get(m, w)) = find(egraph, sigma[w])

\* the result of search holds, for class c, exactly the binding sigma
FoundExactly(c, sigma) ==
    \E p \in Found :
        /\ matches[p[1]].eclass = c
        /\ LET m == matches[p[1]].mappings[p[2]]
           IN  /\ NamesOf(m) = DOMAIN sigma
               /\ \A w \in DOMAIN sigma : WildMap_get(m, w) = sigma[w]

\* C2 as stated: on any e-graph, every e-node tree rooted in a class that
\* matches the lhs with one e-class at every occurrence of a repeated
\* wildcard has its binding in the result of search for that class.
Orig_C2_SearchComplete ==
    phase = "searched" =>
        \A c \in Leaders(egraph) : \A sigma \in Bindings(rw.lhs, egraph) :
            TreeMatchesClass(rw.lhs, egraph, c, sigma) => FoundUpToClass(c, sigma)

\* C2 amended: the statement holds on a rebuilt e-graph; on an e-graph with
\* unions not yet rebuilt it holds of the trees whose occurrences of a
\* repeated wildcard carry one and the same e-class id.
Thm_C2_SearchComplete ==
    phase = "searched" =>
        /\ IsRebuilt(egraph) =>
              \A c \in Leaders(egraph) : \A sigma \in Bindings(rw.lhs, egraph) :
                  TreeMatchesClass(rw.lhs, egraph, c, sigma)
                      => FoundUpToClass(c, sigma)
        /\ \A c \in Leaders(egraph) : \A sigma \in Bindings(rw.lhs, egraph) :
              TreeMatchesId(rw.lhs, egraph, c, sigma) => FoundExactly(c, sigma)

\* C2 witness: two e-nodes of one merged class match f(?a, ?b) on a rebuilt
\* e-graph, and search holds two mappings for that class
Wit_C2_SearchComplete ==
    /\ phase = "searched"
    /\ rw = Rw_commute
    /\ IsRebuilt(egraph)
    /\ \E i \in Ids(egraph) : find(egraph, i) # i
    /\ Len(matches) = 1
    /\ Len(matches[1].mappings) = 2

\* C3 as stated: with size_limit equal to total_size() before the call,
\* apply_with_limit applies no binding and returns an empty list.
Orig_C3_LimitEqualSize ==
    (phase \in {"apply", "done", "panic"} /\ size_limit = total_size(egraph0)) =>
        (egraph = egraph0 /\ applications = <<>>)

\* C3 amended: with size_limit below total_size() before the call,
\* apply_with_limit stops at the first size check of every per-class match,
\* applies no binding and returns an empty list.
Thm_C3_LimitBelowSize ==
    (phase \in {"apply", "done", "panic"} /\ size_limit < total_size(egraph0)) =>
        (egraph = egraph0 /\ applications = <<>> /\ phase # "panic")

\* C3 witness: the call has returned with a limit below the size, though
\* its first binding would have added an e-node
Wit_C3_LimitBelowSize ==
    /\ phase = "done"
    /\ size_limit < total_size(egraph0)
    /\ limit_seen
    /\ matches # <<>>
    /\ total_size(apply_mapping(egraph0, matches[1].eclass, matches[1].mappings[1],
                                rw.rhs, rw.conditions, total_size(egraph0),
                                TRUE).egraph) > total_size(egraph0)

\* C4: the assertion assert_eq!(before_size, after_size) never fails.
Claim_C4_AssertHolds == panic # "assert"

\* C5: once a size check has observed total_size() > size_limit, no later
\* step of the call checks a condition, substitutes or unions: the e-graph
\* and the ids produced stay as they are, and the call does not panic.
Thm_C5_LimitStopsAll ==
    [][limit_seen =>
          (egraph' = egraph /\ applications' = applications /\ phase' # "panic")]_vars

\* C5 witness: the check has stopped one per-class match after an id was
\* produced, and another per-class match is still to come
Wit_C5_LimitStopsAll ==
    /\ phase = "apply"
    /\ limit_seen
    /\ applications # <<>>

\* C6: a binding whose conditions do not all hold is not unioned and adds
\* nothing to the output; the e-nodes and the equalities among the e-classes
\* that existed before are unchanged.
Thm_C6_ConditionFalse ==
    [][(AtMapping /\ CurConds.ok /\ ~CurConds.result) =>
          /\ applications' = applications
          /\ panic' = "none"
          /\ SubSeq(egraph'.nodes, 1, Len(egraph.nodes)) = egraph.nodes
          /\ SameEqualities(egraph', egraph, Ids(egraph))]_vars

\* C6 witness: the conditional rewrite has gone through a binding whose
\* condition was false, and the check interned new e-nodes
Wit_C6_ConditionFalse ==
    /\ phase = "done"
    /\ rw = Rw_cond
    /\ applications = <<>>
    /\ total_size(egraph) > total_size(egraph0)

\* C7: a binding whose conditions hold (and whose rhs can be substituted)
\* has its matched e-class and its rhs e-class unioned, was_there or not;
\* the leader is appended exactly when the rhs was new; every id produced
\* is in a matched e-class.
Thm_C7_UnionAndLeader ==
    /\ [][(AtMapping /\ CurConds.ok /\ CurConds.result /\ CurRoot.ok) =>
             /\ find(egraph', matches[mi].eclass) = find(egraph', CurRoot.id)
             /\ applications' =
                   IF CurRoot.was_there THEN applications
                   ELSE Append(applications, find(egraph', matches[mi].eclass))]_vars
    /\ [](\A k \in 1 .. Len(applications) : \E m \in 1 .. Len(matches) :
             find(egraph, applications[k]) = find(egraph, matches[m].eclass))

\* C7 witness: the conditional rewrite, its condition satisfied, has
\* returned one id, the leader of the matched class
Wit_C7_UnionAndLeader ==
    /\ phase = "done"
    /\ rw = Rw_cond
    /\ Len(applications) = 1
    /\ Len(matches) = 1
    /\ applications[1] = find(egraph, matches[1].eclass)

\* C8: no WildMap of the result has two entries for one wildcard; every
\* mapping is witnessed by a tree whose occurrences of a wildcard carry one
\* id; f(?a, ?a) is found exactly when an e-node f(c, c) is stored.
Thm_C8_BindingConsistent ==
    phase = "searched" =>
        /\ \A p \in Found :
              LET m == matches[p[1]].mappings[p[2]]
              IN  /\ \A a \in 1 .. Len(m), b \in 1 .. Len(m) :
                        m[a].w = m[b].w => a = b
                  /\ NamesOf(m) = WildcardsOf(rw.lhs)
                  /\ TreeMatchesId(rw.lhs, egraph, matches[p[1]].eclass,
                                   [w \in NamesOf(m) |-> WildMap_get(m, w)])
        /\ rw = Rw_nonlinear =>
              (matches # <<>> <=>
                  \E i \in Ids(egraph) :
                      /\ egraph.nodes[i].op = "f"
                      /\ Len(egraph.nodes[i].children) = 2
                      /\ egraph.nodes[i].children[1] = egraph.nodes[i].children[2])

\* C8 witness: f(?a, ?a) is found after a union and a rebuild
Wit_C8_BindingConsistent ==
    /\ phase = "searched"
    /\ rw = Rw_nonlinear
    /\ matches # <<>>
    /\ IsRebuilt(egraph)
    /\ \E i \in Ids(egraph) : find(egraph, i) # i

\* C9: is_bound() is true exactly when every wildcard of the rhs and of the
\* conditions occurs in the lhs; every mapping of the result binds every
\* wildcard of the lhs; a bound rewrite never finds a wildcard missing.
Thm_C9_Bound ==
    /\ phase # "build" => (bound <=> WellBound(rw))
    /\ phase = "searched" =>
          \A p \in Found :
              WildcardsOf(rw.lhs) \subseteq NamesOf(matches[p[1]].mappings[p[2]])
    /\ bound => panic # "unwrap"

\* C9 witness: a bound conditional rewrite has been applied to the end
Wit_C9_Bound ==
    /\ phase = "done"
    /\ bound
    /\ rw.conditions # <<>>
    /\ applications # <<>>

\* C10: a call that returns an empty list has merged no two e-classes that
\* were distinct before it.
Claim_C10_EmptyIsFixedPoint ==
    (phase = "done" /\ applications = <<>>) =>
        SameEqualities(egraph, egraph0, Ids(egraph0))

====
